---- MODULE Spec2Model ----
(***************************************************************************)
(* Model of find_solutions.py: the subset-sum search find_constituents,    *)
(* the cross-total combiner filter_unique_solutions and their driver       *)
(* find_unique_solutions.                                                  *)
(*                                                                         *)
(* Numbers are fixed-point decimals with Digits decimal places: the        *)
(* integer x stands for x * 10^-Digits.  Arithmetic on them is exact, so   *)
(* the model does not show binary floating-point noise; rounding to a      *)
(* number of decimals and the tolerance comparisons are modelled as the    *)
(* code performs them.  Indices are 0-based as in the code; element i of   *)
(* a Python list is element i + 1 of the sequence that models it.          *)
(***************************************************************************)
EXTENDS Integers, Sequences, FiniteSets, TLC

VARIABLES
    constituents,      \* find_unique_solutions argument: the candidate values
    totals,            \* find_unique_solutions argument: the target totals
    precision,         \* find_unique_solutions argument
    tol,               \* find_unique_solutions argument
    pc,                \* "search", "filter", "done" or "raised"
    total_index,       \* loop variable of find_unique_solutions (line 253)
    stack,             \* call stack of find_constituents, innermost frame last
    all_solutions,     \* find_unique_solutions' list of per-total solution sets
    fstack,            \* call stack of filter_unique_solutions, innermost last
    unique_solutions   \* the list find_unique_solutions returns

vars == <<constituents, totals, precision, tol, pc, total_index, stack,
          all_solutions, fstack, unique_solutions>>

----------------------------------------------------------------------------
(* Bounds and input domains *)

MaxN == 3

DefaultPrecision == 3

\* One unit of the fixed-point representation is 10^-Digits.
Digits == DefaultPrecision + 1

RECURSIVE Pow10(_)
Pow10(n) == IF n <= 0 THEN 1 ELSE 10 * Pow10(n - 1)

\* tol: float = 1e-4
DefaultTol == Pow10(Digits - 4)

\* 0.001 and 1.0 in units, to write the input values readably
Milli == Pow10(Digits - 3)
One == Pow10(Digits)

\* Candidate values: -0.001, 0, 0.001, 0.003, 0.01 and one value, 0.0014,
\* that is not a multiple of 10^-3.
Values == {-Milli, 0, Milli, 3 * Milli, 10 * Milli, Milli + 4}

TotalLists == {<<Milli>>, <<2 * Milli>>, <<5 * Milli>>, <<10 * Milli>>,
               <<Milli, 2 * Milli>>, <<3 * Milli, Milli>>}

\* <<precision, tol>> pairs a caller passes: the defaults of find_constituents,
\* a stricter pair, and the command line's default precision of 2.
Params == {<<DefaultPrecision, DefaultTol>>, <<4, 0>>, <<2, DefaultTol>>}

\* Inputs of a direct call of filter_unique_solutions: up to MaxSets solution
\* sets of up to MaxSols tuples each, over three constituent indices.
MaxSets == 2

MaxSols == 2

FilterTuples == {<<0>>, <<1>>, <<2>>, <<0, 1>>, <<1, 2>>}

SolutionSets == {S \in SUBSET FilterTuples : Cardinality(S) <= MaxSols}

SeqsUpTo(S, n) == UNION {[1..k -> S] : k \in 1..n}

----------------------------------------------------------------------------
(* Arithmetic helpers *)

Abs(x) == IF x < 0 THEN -x ELSE x

Min2(a, b) == IF a <= b THEN a ELSE b

SetMin(S) == CHOOSE x \in S : \A y \in S : x <= y

\* round(x, p): nearest multiple of 10^-p, ties to the even multiple.
Round(x, p) ==
    IF p >= Digits THEN x
    ELSE LET q == Pow10(Digits - p)
             f == x \div q
             r == x % q
         IN  IF 2 * r < q THEN f * q
             ELSE IF 2 * r > q THEN (f + 1) * q
             ELSE IF f % 2 = 0 THEN f * q ELSE (f + 1) * q

Range(s) == {s[k] : k \in 1..Len(s)}

\* sorted(list)
Sorted(s) == SortSeq(s, LAMBDA a, b : a < b)

----------------------------------------------------------------------------
(* find_constituents *)

N == Len(constituents)

Indices == 0 .. (N - 1)

At(i) == constituents[i + 1]

\* Variant: the loop restarts at index 0 in every call.
StartIndexZero(used_indices) == 0

\* last_index + 1, with last_index = -1 for an empty used_indices
StartIndex(used_indices) ==
    IF used_indices # <<>> THEN used_indices[Len(used_indices)] + 1 ELSE -1 + 1

Unused(used_indices) == {i \in Indices : i \notin Range(used_indices)}

\* min() of an empty list raises ValueError
MinRaises(used_indices) == Unused(used_indices) = {}

MinRemaining(used_indices) ==
    Min2(SetMin({At(i) : i \in Unused(used_indices)}), 0)

\* The locals of a call after lines 102-115.
Frame(total, used_indices, p, t) ==
    [total          |-> Round(total, p),
     used_indices   |-> used_indices,
     precision      |-> p,
     tol            |-> t,
     min_remaining  |-> MinRemaining(used_indices),
     index          |-> StartIndex(used_indices),
     all_solutions  |-> {}]

Top == stack[Len(stack)]

\* constituent = round(constituent, precision)
Candidate(f) == Round(At(f.index), f.precision)

\* Variant: prunes every candidate that reaches the remaining total.
PrunedAtTotal(f) == Round(At(f.index), f.precision) >= f.total

\* line 119
Pruned(f) == Candidate(f) > f.total + f.tol + Abs(f.min_remaining)

\* line 121
AlreadyUsed(f) == f.index \in Range(f.used_indices)

NewTotal(f) == f.total - Candidate(f)

\* line 124
WithinTol(x, t) == -t <= x /\ x <= t

Looping == pc = "search" /\ stack # <<>> /\ Top.index < N

Advance == [stack EXCEPT ![Len(stack)].index = @ + 1]

\* find_unique_solutions calls find_constituents for the next total.
Call ==
    /\ pc = "search" /\ stack = <<>> /\ total_index < Len(totals)
    /\ IF MinRaises(<<>>)
       THEN /\ pc' = "raised"
            /\ stack' = stack
       ELSE /\ pc' = pc
            /\ stack' = <<Frame(totals[total_index + 1], <<>>, precision, tol)>>
    /\ UNCHANGED <<constituents, totals, precision, tol, total_index,
                   all_solutions, fstack, unique_solutions>>

\* The two `continue` statements of lines 119-122.
Continue ==
    /\ Looping
    /\ Pruned(Top) \/ AlreadyUsed(Top)
    /\ stack' = Advance
    /\ UNCHANGED <<constituents, totals, precision, tol, pc, total_index,
                   all_solutions, fstack, unique_solutions>>

\* Lines 123-126: the candidate completes a solution.
Record ==
    /\ Looping
    /\ ~Pruned(Top) /\ ~AlreadyUsed(Top)
    /\ WithinTol(NewTotal(Top), Top.tol)
    /\ stack' = [Advance EXCEPT ![Len(stack)].all_solutions =
                    @ \cup {Sorted(Append(Top.used_indices, Top.index))}]
    /\ UNCHANGED <<constituents, totals, precision, tol, pc, total_index,
                   all_solutions, fstack, unique_solutions>>

\* Lines 127-131: the recursive call, which passes neither precision nor tol.
\* The callee's min() raises when every index is used; nothing catches it.
Recurse ==
    /\ Looping
    /\ ~Pruned(Top) /\ ~AlreadyUsed(Top)
    /\ ~WithinTol(NewTotal(Top), Top.tol)
    /\ LET used == Append(Top.used_indices, Top.index)
       IN  IF MinRaises(used)
           THEN /\ pc' = "raised"
                /\ stack' = <<>>
           ELSE /\ pc' = pc
                /\ stack' = Append(stack, Frame(NewTotal(Top), used,
                                                DefaultPrecision, DefaultTol))
    /\ UNCHANGED <<constituents, totals, precision, tol, total_index,
                   all_solutions, fstack, unique_solutions>>

\* Line 134, and what the caller does with the returned set: lines 132-133
\* in a recursive caller, line 260 in find_unique_solutions.
Return ==
    /\ pc = "search" /\ stack # <<>> /\ Top.index >= N
    /\ LET n == Len(stack)
           caller == SubSeq(stack, 1, n - 1)
       IN  IF n > 1
           THEN /\ stack' = [caller EXCEPT ![n - 1].all_solutions =
                                @ \cup Top.all_solutions,
                                           ![n - 1].index = @ + 1]
                /\ UNCHANGED <<all_solutions, total_index>>
           ELSE /\ stack' = <<>>
                /\ all_solutions' = [all_solutions EXCEPT
                                        ![total_index + 1] = Top.all_solutions]
                /\ total_index' = total_index + 1
    /\ UNCHANGED <<constituents, totals, precision, tol, pc, fstack,
                   unique_solutions>>

----------------------------------------------------------------------------
(* filter_unique_solutions *)

\* Variant: looks at the first index of the solution only.
IntersectsFirstOnly(solution, used_indices) ==
    solution # <<>> /\ solution[1] \in used_indices

\* any(i in used_indices for i in solution)
Intersects(solution, used_indices) ==
    \E k \in 1..Len(solution) : solution[k] \in used_indices

\* set([*used_indices, *solution])
ExtendUsed(used_indices, solution) == used_indices \cup Range(solution)

\* Variant: puts the accepted solution after the tail's solutions.
PrependAtEnd(solution, new_solutions) ==
    [k \in 1..Len(new_solutions) |-> new_solutions[k] \o <<solution>>]

\* [[solution, *sol] for sol in new_solutions]
Prepend(solution, new_solutions) ==
    [k \in 1..Len(new_solutions) |-> <<solution>> \o new_solutions[k]]

\* Variant: assigns the new solutions instead of extending the list.
ExtendReplace(solutions_so_far, new_solutions) == new_solutions

\* all_solutions.extend(new_solutions)
Extend(solutions_so_far, new_solutions) == solutions_so_far \o new_solutions

\* The locals of a call after lines 161-164.  `remaining` is the part of
\* solutions[0] the for loop has not yet visited: a set is iterated in
\* an order the language does not specify.
FFrame(solutions, used_indices) ==
    [solutions      |-> solutions,
     used_indices   |-> used_indices,
     remaining      |-> solutions[1],
     solution       |-> <<>>,
     all_solutions  |-> <<>>]

FTop == fstack[Len(fstack)]

FLooping == pc = "filter" /\ fstack # <<>> /\ FTop.remaining # {}

\* Line 262: find_unique_solutions calls filter_unique_solutions.
FilterCall ==
    /\ pc = "search" /\ stack = <<>> /\ total_index = Len(totals)
    /\ pc' = "filter"
    /\ fstack' = <<FFrame(all_solutions, {})>>
    /\ UNCHANGED <<constituents, totals, precision, tol, total_index, stack,
                   all_solutions, unique_solutions>>

\* Lines 166-167.
FilterSkip ==
    /\ FLooping
    /\ \E solution \in FTop.remaining :
          /\ Intersects(solution, FTop.used_indices)
          /\ fstack' = [fstack EXCEPT ![Len(fstack)].remaining =
                            @ \ {solution}]
    /\ UNCHANGED <<constituents, totals, precision, tol, pc, total_index,
                   stack, all_solutions, unique_solutions>>

\* Lines 168-169.
FilterAppend ==
    /\ FLooping
    /\ Len(FTop.solutions) = 1
    /\ \E solution \in FTop.remaining :
          /\ ~Intersects(solution, FTop.used_indices)
          /\ fstack' = [fstack EXCEPT
                            ![Len(fstack)].remaining = @ \ {solution},
                            ![Len(fstack)].all_solutions =
                                Append(@, <<solution>>)]
    /\ UNCHANGED <<constituents, totals, precision, tol, pc, total_index,
                   stack, all_solutions, unique_solutions>>

\* Lines 171-174: the recursive call on solutions[1:].
FilterRecurse ==
    /\ FLooping
    /\ Len(FTop.solutions) # 1
    /\ \E solution \in FTop.remaining :
          /\ ~Intersects(solution, FTop.used_indices)
          /\ fstack' = Append(
                 [fstack EXCEPT ![Len(fstack)].remaining = @ \ {solution},
                                ![Len(fstack)].solution = solution],
                 FFrame(Tail(FTop.solutions),
                        ExtendUsed(FTop.used_indices, solution)))
    /\ UNCHANGED <<constituents, totals, precision, tol, pc, total_index,
                   stack, all_solutions, unique_solutions>>

\* Line 177, and what the caller does with the returned list: lines 175-176
\* in a recursive caller, lines 262-271 in find_unique_solutions.
FilterReturn ==
    /\ pc = "filter" /\ fstack # <<>> /\ FTop.remaining = {}
    /\ LET n == Len(fstack)
           caller == SubSeq(fstack, 1, n - 1)
       IN  IF n > 1
           THEN /\ fstack' = [caller EXCEPT ![n - 1].all_solutions =
                                 Extend(@, Prepend(caller[n - 1].solution,
                                                   FTop.all_solutions))]
                /\ UNCHANGED <<pc, unique_solutions>>
           ELSE /\ fstack' = <<>>
                /\ unique_solutions' = FTop.all_solutions
                /\ pc' = "done"
    /\ UNCHANGED <<constituents, totals, precision, tol, total_index, stack,
                   all_solutions>>

----------------------------------------------------------------------------
(* Specifications *)

\* The searches of find_unique_solutions (lines 252-260) on lists of
\* constituents and totals drawn from the input domains.  The inputs have no
\* more decimals than the caller's precision, so that rounding them at that
\* precision changes none of them.
Init ==
    /\ constituents \in SeqsUpTo(Values, MaxN)
    /\ totals \in TotalLists
    /\ \E pt \in Params : precision = pt[1] /\ tol = pt[2]
    /\ \A k \in 1..Len(constituents) :
          Round(constituents[k], precision) = constituents[k]
    /\ \A k \in 1..Len(totals) : Round(totals[k], precision) = totals[k]
    /\ pc = "search"
    /\ total_index = 0
    /\ stack = <<>>
    /\ all_solutions = [k \in 1..Len(totals) |-> {}]
    /\ fstack = <<>>
    /\ unique_solutions = <<>>

Next == Call \/ Continue \/ Record \/ Recurse \/ Return

Spec == Init /\ [][Next]_vars

\* The example of the module docstring:
\* --values 1 2 3 4 5 6 --totals 12 9, with find_constituents' defaults.
InitExample ==
    /\ constituents = [k \in 1..6 |-> k * One]
    /\ totals = <<12 * One, 9 * One>>
    /\ precision = DefaultPrecision
    /\ tol = DefaultTol
    /\ pc = "search"
    /\ total_index = 0
    /\ stack = <<>>
    /\ all_solutions = [k \in 1..Len(totals) |-> {}]
    /\ fstack = <<>>
    /\ unique_solutions = <<>>

\* The whole of find_unique_solutions: the searches, then the combiner.
NextExample ==
    \/ Call \/ Continue \/ Record \/ Recurse \/ Return
    \/ FilterCall \/ FilterSkip \/ FilterAppend \/ FilterRecurse
    \/ FilterReturn

SpecExample == InitExample /\ [][NextExample]_vars

\* filter_unique_solutions called on its own with a list of solution sets;
\* the state is the one right after lines 161-164 of the outermost call.
InitFilter ==
    /\ constituents = <<>>
    /\ totals = <<>>
    /\ precision = DefaultPrecision
    /\ tol = DefaultTol
    /\ pc = "filter"
    /\ total_index = 0
    /\ stack = <<>>
    /\ all_solutions \in SeqsUpTo(SolutionSets, MaxSets)
    /\ fstack = <<FFrame(all_solutions, {})>>
    /\ unique_solutions = <<>>

NextFilter == FilterSkip \/ FilterAppend \/ FilterRecurse \/ FilterReturn

SpecFilter == InitFilter /\ [][NextFilter]_vars

----------------------------------------------------------------------------
(* Properties *)

RECURSIVE SumSet(_)
\* The exact sum of the constituents at a set of indices.
SumSet(S) ==
    IF S = {} THEN 0
    ELSE LET i == CHOOSE j \in S : TRUE IN At(i) + SumSet(S \ {i})

SumOf(s) == SumSet(Range(s))

StrictlyIncreasing(s) == \A k \in 1..(Len(s) - 1) : s[k] < s[k + 1]

\* The ascending tuple of a set of indices.
AsTuple(S) ==
    CHOOSE s \in [1..Cardinality(S) -> S] :
        Range(s) = S /\ StrictlyIncreasing(s)

Canonical(s) == s # <<>> /\ StrictlyIncreasing(s) /\ Range(s) \subseteq Indices

PairwiseDisjoint(combination) ==
    \A i, j \in 1..Len(combination) :
        i < j => Range(combination[i]) \cap Range(combination[j]) = {}

\* The searches that have returned: totals[k] for k in 1..total_index.
Searched == 1..total_index

\* C1: every non-empty set of indices whose values sum to a total within tol
\* is, as an ascending tuple, in the set find_constituents returned for it.
C1_Completeness ==
    \A k \in Searched : \A S \in (SUBSET Indices) \ {{}} :
        WithinTol(SumSet(S) - totals[k], tol) => AsTuple(S) \in all_solutions[k]

\* C2: the values at the indices of every tuple find_constituents returned
\* sum to the total within the caller's tol.
C2_Soundness ==
    \A k \in Searched : \A s \in all_solutions[k] :
        WithinTol(SumOf(s) - totals[k], tol)

\* C3: find_constituents on a non-empty list of constituents never raises.
C3_NeverRaises == N > 0 => pc # "raised"

\* C7: in every call used_indices is strictly increasing and the loop index
\* is beyond its last element, and every tuple collected or returned is a
\* strictly increasing sequence of indices in 0..N-1.
C7_Canonical ==
    /\ \A d \in 1..Len(stack) :
          LET f == stack[d] IN
          /\ StrictlyIncreasing(f.used_indices)
          /\ Range(f.used_indices) \subseteq Indices
          /\ \A i \in Range(f.used_indices) : i < f.index
          /\ \A s \in f.all_solutions : Canonical(s)
    /\ \A k \in 1..Len(all_solutions) : \A s \in all_solutions[k] : Canonical(s)

\* A search returned a tuple of two or more indices, found in a recursive call.
C7_Witness ==
    \E k \in Searched : \E s \in all_solutions[k] : Len(s) >= 2

\* C9: when the loop skips a candidate by the test of line 119, no set made
\* of the indices already chosen, the candidate and any higher indices sums
\* to the total being searched within tol.
C9_PruningSafe ==
    (Looping /\ Pruned(Top) /\ ~AlreadyUsed(Top)) =>
        \A S \in SUBSET {i \in Indices : i > Top.index} :
            ~WithinTol(SumSet(Range(Top.used_indices) \cup {Top.index} \cup S)
                           - totals[total_index + 1], tol)

\* C10: every call of one search, at any depth, rounds with the precision and
\* compares with the tol that the caller passed to the outermost call.
C10_ParamsFixed ==
    \A d \in 1..Len(stack) :
        stack[d].precision = precision /\ stack[d].tol = tol

\* C4: no index occurs in two subsets of a combination, in the returned list
\* and in the list every unfinished call has built so far.
C4_Disjoint ==
    /\ \A k \in 1..Len(unique_solutions) : PairwiseDisjoint(unique_solutions[k])
    /\ \A d \in 1..Len(fstack) : \A k \in 1..Len(fstack[d].all_solutions) :
          LET combination == fstack[d].all_solutions[k] IN
          /\ PairwiseDisjoint(combination)
          /\ \A i \in 1..Len(combination) :
                Range(combination[i]) \cap fstack[d].used_indices = {}

\* filter_unique_solutions returned a combination of two subsets although a
\* subset of the first set shares an index with a subset of the second.
C4_Witness ==
    /\ pc = "done" /\ Len(all_solutions) >= 2
    /\ \E k \in 1..Len(unique_solutions) : Len(unique_solutions[k]) >= 2
    /\ \E s \in all_solutions[1] : \E t \in all_solutions[2] :
          Range(s) \cap Range(t) # {}

\* One subset from each solution set, in the order of the sets.
Choices ==
    {c \in [1..Len(all_solutions) -> UNION Range(all_solutions)] :
        \A i \in 1..Len(all_solutions) : c[i] \in all_solutions[i]}

Occurrences(c) ==
    Cardinality({k \in 1..Len(unique_solutions) : unique_solutions[k] = c})

\* C5: every choice of one subset per solution set whose subsets are pairwise
\* disjoint occurs exactly once in the returned list.
C5_Exhaustive ==
    pc = "done" =>
        \A c \in Choices : PairwiseDisjoint(c) => Occurrences(c) = 1

\* filter_unique_solutions returned two or more combinations of two or more
\* subsets each.
C5_Witness ==
    /\ pc = "done" /\ Len(all_solutions) >= 2
    /\ Len(unique_solutions) >= 2

\* C6: every combination has one element per solution set and element i is a
\* member of the i-th set; at recursion depth d this holds of the list built
\* so far against the sets the call was given.
C6_OrderPreserved ==
    /\ pc = "done" =>
          \A k \in 1..Len(unique_solutions) :
              /\ Len(unique_solutions[k]) = Len(all_solutions)
              /\ \A i \in 1..Len(all_solutions) :
                    unique_solutions[k][i] \in all_solutions[i]
    /\ \A d \in 1..Len(fstack) : \A k \in 1..Len(fstack[d].all_solutions) :
          LET combination == fstack[d].all_solutions[k]
              solutions == fstack[d].solutions
          IN  /\ Len(combination) = Len(solutions)
              /\ \A i \in 1..Len(solutions) : combination[i] \in solutions[i]

\* filter_unique_solutions returned a combination whose first element is not
\* in the second set, so the order of the elements matters.
C6_Witness ==
    /\ pc = "done" /\ Len(all_solutions) >= 2
    /\ \E k \in 1..Len(unique_solutions) :
          unique_solutions[k][1] \notin all_solutions[2]

====
